---------------------------- MODULE Spec2Model ----------------------------
(***************************************************************************)
(* A model of jsonrpcli: the JSON-RPC 2.0 message model                    *)
(* (src/jsonrpc_types.rs), the capture proxy (src/bin/proxy.rs) and the    *)
(* replay engine (src/bin/repro.rs).                                       *)
(*                                                                         *)
(* JSON text is modelled by the value it parses to: a tagged record        *)
(* [t |-> tag, v |-> payload].  A JSON object is a function from the keys  *)
(* that are present to their values, so "key absent", "key present and     *)
(* null" and "key present with a value" are three different things.        *)
(***************************************************************************)
EXTENDS Integers, Sequences, FiniteSets, TLC

VARIABLES
    \* message model: one encode and/or decode of one message
    cpc,      \* "encode" | "decode" | "done"
    ckind,    \* "Request" | "Response" | "Error"
    cfrom,    \* "value": the wire form was produced by serialize; "wire": it is an input
    cval,     \* the typed value that was serialized (Nothing when the input is a wire form)
    cwire,    \* the JSON value on the wire (Nothing before serialization)
    cout,     \* the outcome of deserialize (Nothing before it ran)
    \* capture proxy: one call of proxy() at a time
    ppc,      \* position inside proxy()
    inbound,  \* the http::Request received from the caller
    upstreamReq,  \* the http::Request handed to client.request
    upstreamResp, \* the http::Response received from the upstream
    stdoutFails,  \* whether writes to the side output fail during this call
    stdout,   \* the records written to the side output, in order
    replies,  \* the outcome of every finished call of proxy(), in order
    served,   \* the number of calls of proxy() started
    \* replay engine
    rpc,      \* "read" | "await" | "exit"
    stdin,    \* the items of the input stream
    pos,      \* index of the next item of stdin to read
    cur,      \* the pairing whose request is in flight
    posts,    \* the requests POSTed so far, in order
    live,     \* the outcome of every POST so far, in order
    stderr,   \* the diagnostics printed so far, in order
    exit,     \* "running" | "success" | "failure"
    \* capture proxy: the accept loop of _main and the connection tasks
    mpc,      \* position of _main: "select" | "sleep" | "shutdown" | "exited"
    ctrl_c,   \* whether the ctrl_c future is ready (the signal was delivered)
    conns,    \* the connections accepted so far, in order
    calls,    \* the calls of proxy() started so far, in order
    lock,     \* the call that holds the lock of io::stdout(), 0 when it is free
    chunks    \* the writes made to the side output, in order

codecVars == <<cpc, ckind, cfrom, cval, cwire, cout>>
proxyVars == <<ppc, inbound, upstreamReq, upstreamResp, stdoutFails, stdout, replies, served>>
replayVars == <<rpc, stdin, pos, cur, posts, live, stderr, exit>>
serverVars == <<mpc, ctrl_c, conns, calls, lock, chunks>>
vars == <<cpc, ckind, cfrom, cval, cwire, cout,
          ppc, inbound, upstreamReq, upstreamResp, stdoutFails, stdout, replies, served,
          rpc, stdin, pos, cur, posts, live, stderr, exit,
          mpc, ctrl_c, conns, calls, lock, chunks>>

-----------------------------------------------------------------------------
(* Bounds *)

\* longest JSON array (by-position parameter list) that is enumerated
MaxLen == 2
\* number of calls of proxy() in one behaviour
MaxRequests == 2
\* longest replay input stream
MaxPairings == 2
\* the futures the capture proxy creates: the connections accepted plus the
\* calls of proxy() started
MaxTasks == 4

-----------------------------------------------------------------------------
(* JSON values (serde_json::Value), Option and Result *)

Nothing == [t |-> "nothing"]

JNull == [t |-> "null"]
JBool(b) == [t |-> "bool", v |-> b]
JNum(n) == [t |-> "num", v |-> n]
JStr(s) == [t |-> "str", v |-> s]
JArr(a) == [t |-> "arr", v |-> a]
JObj(m) == [t |-> "obj", v |-> m]

None == [some |-> FALSE]
Some(x) == [some |-> TRUE, v |-> x]

Ok(x) == [ok |-> TRUE, v |-> x]
Err(e) == [ok |-> FALSE, e |-> e]

SeqsUpTo(S, n) == UNION {[1..k -> S] : k \in 0..n}

\* the empty JSON object
EmptyMap == [k \in {} |-> JNull]
\* f with the key k bound to v
With(f, k, v) == [x \in (DOMAIN f) \cup {k} |-> IF x = k THEN v ELSE f[x]]


-----------------------------------------------------------------------------
(* The typed values of src/jsonrpc_types.rs *)

V2 == "V2"

IdString(s) == [t |-> "String", v |-> s]
IdNumber(n) == [t |-> "Number", v |-> n]
IdNull == [t |-> "Null"]

ByPosition(a) == [t |-> "ByPosition", v |-> a]
ByName(m) == [t |-> "ByName", v |-> m]

Request(method, params, id) ==
    [jsonrpc |-> V2, method |-> method, params |-> params, id |-> id]

Response(result, id) == [jsonrpc |-> V2, result |-> result, id |-> id]

Error(code, message, data) == [code |-> code, message |-> message, data |-> data]

RawResponseDeSer(result, error, id) ==
    [jsonrpc |-> V2, result |-> result, error |-> error, id |-> id]

is_notification(r) == ~r.id.some

-----------------------------------------------------------------------------
(* Serialize *)

SerializeV2 == JStr("2.0")

\* Id is serialized untagged: a string, a number or null
SerializeId(id) ==
    CASE id.t = "String" -> JStr(id.v)
      [] id.t = "Number" -> JNum(id.v)
      [] id.t = "Null" -> JNull

\* RequestParameters is serialized untagged: an array or an object
SerializeRequestParameters(p) ==
    IF p.t = "ByPosition" THEN JArr(p.v) ELSE JObj(p.v)

SerializeValue(v) == v

\* Option<T> without skip_serializing_if: None is written as null
SerializeOptionValue(o) == IF o.some THEN SerializeValue(o.v) ELSE JNull
SerializeOptionOptionValue(o) == IF o.some THEN SerializeOptionValue(o.v) ELSE JNull

\* derive(Serialize) on Request; params and id are skipped when None
SerializeRequest(r) ==
    LET base == [k \in {"jsonrpc", "method"} |->
                    IF k = "jsonrpc" THEN SerializeV2 ELSE JStr(r.method)]
        withParams == IF r.params.some
                      THEN With(base, "params", SerializeRequestParameters(r.params.v))
                      ELSE base
        withId == IF r.id.some
                  THEN With(withParams, "id", SerializeId(r.id.v))
                  ELSE withParams
    IN  JObj(withId)

\* derive(Serialize) on Error; data is skipped when None
SerializeError(e) ==
    LET base == [k \in {"code", "message"} |->
                    IF k = "code" THEN JNum(e.code) ELSE JStr(e.message)]
    IN  JObj(IF e.data.some THEN With(base, "data", SerializeValue(e.data.v)) ELSE base)

\* derive(Serialize) on RawResponseDeSer: no field is skipped
SerializeRawResponseDeSer(h) ==
    JObj([k \in {"jsonrpc", "result", "error", "id"} |->
            CASE k = "jsonrpc" -> SerializeV2
              [] k = "result" -> SerializeOptionOptionValue(h.result)
              [] k = "error" -> IF h.error.some THEN SerializeError(h.error.v) ELSE JNull
              [] k = "id" -> SerializeId(h.id)])

\* impl Serialize for Response
SerializeResponse(r) ==
    LET helper == IF r.result.ok
                  THEN RawResponseDeSer(Some(Some(r.result.v)), None, r.id)
                  ELSE RawResponseDeSer(None, Some(r.result.e), r.id)
    IN  SerializeRawResponseDeSer(helper)

-----------------------------------------------------------------------------
(* Deserialize *)

\* A deserializer maps a JSON value to the set of its possible outcomes:
\* {Ok(x)} on success, and on failure one Err per error that serde can
\* report.  When several members are invalid, serde reports the one that
\* comes first in the text, and member order is not part of the modelled
\* JSON object.

\* the messages, without the backquotes the source puts around member names
ExpectingParams == "an Array of by-position paramaters, or an Object of by-name parameters"
ExpectingId == "a string, a number, or null"
OnlyOneMsg == "only ONE of error and result may be present"
MustHaveMsg == "must have an error or result member"

MissingField(k) == 
    CASE k = "jsonrpc" -> "missing field jsonrpc"
      [] k = "method" -> "missing field method"
      [] k = "id" -> "missing field id"
      [] k = "code" -> "missing field code"
      [] k = "message" -> "missing field message"
      [] OTHER -> "missing field"

DeserializeV2(j) ==
    IF j.t = "str"
    THEN IF j.v = "2.0" THEN {Ok(V2)} ELSE {Err("invalid value: expected 2.0")}
    ELSE {Err("invalid type: expected a string")}

DeserializeString(j) ==
    IF j.t = "str" THEN {Ok(j.v)} ELSE {Err("invalid type: expected a string")}

DeserializeI64(j) ==
    IF j.t = "num" THEN {Ok(j.v)} ELSE {Err("invalid type: expected i64")}

DeserializeValue(j) == {Ok(j)}

\* untagged: the first variant whose shape matches
DeserializeId(j) ==
    CASE j.t = "str" -> {Ok(IdString(j.v))}
      [] j.t = "num" -> {Ok(IdNumber(j.v))}
      [] j.t = "null" -> {Ok(IdNull)}
      [] OTHER -> {Err(ExpectingId)}

\* a mutant of DeserializeRequestParameters: a scalar is taken as a
\* one-element parameter list
DeserializeRequestParametersScalar(j) ==
    CASE j.t = "arr" -> {Ok(ByPosition(j.v))}
      [] j.t = "obj" -> {Ok(ByName(j.v))}
      [] OTHER -> {Ok(ByPosition(<<j>>))}

\* untagged: the first variant whose shape matches
DeserializeRequestParameters(j) ==
    CASE j.t = "arr" -> {Ok(ByPosition(j.v))}
      [] j.t = "obj" -> {Ok(ByName(j.v))}
      [] OTHER -> {Err(ExpectingParams)}

\* Option<T>: null is None, anything else is Some(T); rs are the outcomes
\* of T's deserializer on j
DeserializeOption(j, rs) ==
    IF j = JNull THEN {Ok(None)}
    ELSE {IF r.ok THEN Ok(Some(r.v)) ELSE r : r \in rs}

\* Deserialize::deserialize(deserializer).map(Some); rs are the outcomes of
\* T's deserializer
deserialize_some(rs) == {IF r.ok THEN Ok(Some(r.v)) ELSE r : r \in rs}

\* the value of the member k of the JSON object m (null stands in for a
\* member that is absent and is never deserialized)
Member(m, k) == IF k \in DOMAIN m THEN m[k] ELSE JNull

\* a required member k of the JSON object m; rs are the outcomes of its
\* deserializer on Member(m, k)
Field(m, k, rs) ==
    IF k \in DOMAIN m
    THEN [present |-> TRUE, rs |-> rs]
    ELSE [present |-> FALSE, rs |-> {Err(MissingField(k))}]

\* a member with serde(default) whose type is an Option
DefaultField(m, k, rs) ==
    IF k \in DOMAIN m
    THEN [present |-> TRUE, rs |-> rs]
    ELSE [present |-> FALSE, rs |-> {Ok(None)}]

\* The errors derive(Deserialize) can report for the fields fs (in struct
\* order): an invalid member while the members are read, else the first
\* required field that is missing.
StructErrors(fs) ==
    LET invalid == UNION {{r.e : r \in {r \in fs[i].rs : ~r.ok}} :
                                i \in {i \in DOMAIN fs : fs[i].present}}
        missing == {i \in DOMAIN fs : ~fs[i].present /\ \E r \in fs[i].rs : ~r.ok}
        first == CHOOSE i \in missing : \A o \in missing : i <= o
    IN  IF invalid # {} THEN invalid
        ELSE IF missing # {} THEN {r.e : r \in fs[first].rs}
        ELSE {}

\* the value of a field that was deserialized without error
Got(f) == (CHOOSE r \in f.rs : r.ok).v

\* A struct given as a JSON array is read by position (visit_seq): member i
\* is element i, absent when the array is shorter.
SeqAsMap(a, keys) == [k \in {keys[i] : i \in 1..(IF Len(a) < Len(keys) THEN Len(a) ELSE Len(keys))} |->
                        a[CHOOSE i \in 1..Len(keys) : keys[i] = k]]

\* The same for a struct given as a JSON array: the elements are read in
\* order, so the first field that is invalid or missing decides.
StructErrorsSeq(fs) ==
    LET bad == {i \in DOMAIN fs : \E r \in fs[i].rs : ~r.ok}
        first == CHOOSE i \in bad : \A o \in bad : i <= o
    IN  IF bad = {} THEN {}
        ELSE IF fs[first].present THEN {r.e : r \in fs[first].rs}
        ELSE {"invalid length"}

OptionRequestParameters(j) == DeserializeOption(j, DeserializeRequestParameters(j))
SomeOptionRequestParameters(j) == deserialize_some(OptionRequestParameters(j))
OptionId(j) == DeserializeOption(j, DeserializeId(j))
SomeOptionId(j) == deserialize_some(OptionId(j))
OptionValue(j) == DeserializeOption(j, DeserializeValue(j))
SomeOptionValue(j) == deserialize_some(OptionValue(j))

\* struct Helper of impl Deserialize for Request
RequestKeys == <<"jsonrpc", "method", "params", "id">>
RequestHelper(m) ==
    << Field(m, "jsonrpc", DeserializeV2(Member(m, "jsonrpc"))),
       Field(m, "method", DeserializeString(Member(m, "method"))),
       DefaultField(m, "params", SomeOptionRequestParameters(Member(m, "params"))),
       DefaultField(m, "id", SomeOptionId(Member(m, "id"))) >>

\* the match on params of impl Deserialize for Request
RequestParamsOf(params) ==
    IF params.some /\ params.v.some THEN Some(params.v.v) ELSE None

\* a mutant of RequestIdOf: id: null is taken as an absent id
RequestIdOfNullAbsent(id) ==
    IF id.some /\ id.v.some THEN Some(id.v.v) ELSE None

\* the match on id of impl Deserialize for Request
RequestIdOf(id) ==
    IF id.some THEN (IF id.v.some THEN Some(id.v.v) ELSE Some(IdNull)) ELSE None

RequestOfHelper(fs) ==
    Request(Got(fs[2]), RequestParamsOf(Got(fs[3])), RequestIdOf(Got(fs[4])))

\* impl Deserialize for Request
DeserializeRequest(j) ==
    CASE j.t = "obj" ->
            LET fs == RequestHelper(j.v)
                errs == StructErrors(fs)
            IN  IF errs # {} THEN {Err(e) : e \in errs} ELSE {Ok(RequestOfHelper(fs))}
      [] j.t = "arr" ->
            LET fs == RequestHelper(SeqAsMap(j.v, RequestKeys))
                errs == StructErrorsSeq(fs)
            IN  IF errs # {} THEN {Err(e) : e \in errs}
                ELSE IF Len(j.v) > Len(RequestKeys) THEN {Err("trailing characters")}
                ELSE {Ok(RequestOfHelper(fs))}
      [] OTHER -> {Err("invalid type: expected struct Helper")}

\* struct Helper of impl Deserialize for Error
ErrorKeys == <<"code", "message", "data">>
ErrorHelper(m) ==
    << Field(m, "code", DeserializeI64(Member(m, "code"))),
       Field(m, "message", DeserializeString(Member(m, "message"))),
       DefaultField(m, "data", SomeOptionValue(Member(m, "data"))) >>

\* the match on data of impl Deserialize for Error
ErrorDataOf(data) ==
    IF data.some THEN (IF data.v.some THEN Some(data.v.v) ELSE Some(JNull)) ELSE None

ErrorOfHelper(fs) == Error(Got(fs[1]), Got(fs[2]), ErrorDataOf(Got(fs[3])))

\* impl Deserialize for Error
DeserializeError(j) ==
    CASE j.t = "obj" ->
            LET fs == ErrorHelper(j.v)
                errs == StructErrors(fs)
            IN  IF errs # {} THEN {Err(e) : e \in errs} ELSE {Ok(ErrorOfHelper(fs))}
      [] j.t = "arr" ->
            LET fs == ErrorHelper(SeqAsMap(j.v, ErrorKeys))
                errs == StructErrorsSeq(fs)
            IN  IF errs # {} THEN {Err(e) : e \in errs}
                ELSE IF Len(j.v) > Len(ErrorKeys) THEN {Err("trailing characters")}
                ELSE {Ok(ErrorOfHelper(fs))}
      [] OTHER -> {Err("invalid type: expected struct Helper")}

\* the member error of RawResponseDeSer: serde(default) on a plain Option
OptionError(j) == DeserializeOption(j, DeserializeError(j))

\* derive(Deserialize) on RawResponseDeSer
ResponseKeys == <<"jsonrpc", "result", "error", "id">>
RawResponseFields(m) ==
    << Field(m, "jsonrpc", DeserializeV2(Member(m, "jsonrpc"))),
       DefaultField(m, "result", SomeOptionValue(Member(m, "result"))),
       DefaultField(m, "error", OptionError(Member(m, "error"))),
       Field(m, "id", DeserializeId(Member(m, "id"))) >>

\* the match (result, error) of impl Deserialize for Response
ResponseOfRaw(result, error, id) ==
    CASE result.some /\ ~error.some ->
            Ok(Response(Ok(IF result.v.some THEN result.v.v ELSE JNull), id))
      [] ~result.some /\ error.some -> Ok(Response(Err(error.v), id))
      [] result.some /\ error.some -> Err(OnlyOneMsg)
      [] ~result.some /\ ~error.some -> Err(MustHaveMsg)

\* impl Deserialize for Response
DeserializeResponse(j) ==
    CASE j.t = "obj" ->
            LET fs == RawResponseFields(j.v)
                errs == StructErrors(fs)
            IN  IF errs # {} THEN {Err(e) : e \in errs}
                ELSE {ResponseOfRaw(Got(fs[2]), Got(fs[3]), Got(fs[4]))}
      [] j.t = "arr" ->
            LET fs == RawResponseFields(SeqAsMap(j.v, ResponseKeys))
                errs == StructErrorsSeq(fs)
            IN  IF errs # {} THEN {Err(e) : e \in errs}
                ELSE IF Len(j.v) > Len(ResponseKeys) THEN {Err("trailing characters")}
                ELSE {ResponseOfRaw(Got(fs[2]), Got(fs[3]), Got(fs[4]))}
      [] OTHER -> {Err("invalid type: expected struct RawResponseDeSer")}

-----------------------------------------------------------------------------
(* The inputs that are enumerated *)

Scalars == {JNull, JBool(TRUE), JNum(1), JStr("a")}
Elements == {JNull, JNum(1), JStr("a")}
Names == {"x", "y"}
Arrays == {JArr(a) : a \in SeqsUpTo(Elements, MaxLen)}
Objects == {JObj(m) : m \in UNION {[K -> {JNull, JNum(1)}] : K \in SUBSET Names}}
Values == Scalars \cup Arrays \cup Objects

Methods == {"ping", "m"}
Ids == {IdNull, IdString("a"), IdNumber(1)}
ParamsValues == {None} \cup {Some(ByPosition(j.v)) : j \in Arrays}
                       \cup {Some(ByName(j.v)) : j \in Objects}
Requests == {Request(m, p, i) : m \in Methods, p \in ParamsValues,
                                i \in {None} \cup {Some(x) : x \in Ids}}
Errors == {Error(c, "e", d) : c \in {-32601, 1},
                             d \in {None} \cup {Some(x) : x \in Values}}
Responses == {Response(r, i) : r \in {Ok(x) : x \in Values} \cup {Err(e) : e \in Errors},
                               i \in Ids}

\* the JSON objects of S, each also with the member k bound to a value of vs
Extend(S, k, vs) == UNION {{m} \cup {With(m, k, v) : v \in vs} : m \in S}

RequestWires ==
    {JObj(m) : m \in
        Extend(Extend(Extend(Extend({EmptyMap},
            "jsonrpc", {JStr("2.0"), JStr("1.0"), JNum(2)}),
            "method", {JStr("ping"), JNum(1)}),
            "params", Values),
            "id", {JNull, JStr("a"), JNum(1), JBool(TRUE), JArr(<<>>)})}
    \cup {JArr(<<JStr("2.0"), JStr("ping")>>), JArr(<<JObj(EmptyMap)>>), JStr("a")}

ErrorWires ==
    {JObj(m) : m \in
        Extend(Extend(Extend({EmptyMap},
            "code", {JNum(-32601), JStr("x")}),
            "message", {JStr("e"), JNum(1)}),
            "data", {JNull, JNum(1), JStr("a")})}
    \cup {JArr(<<JNum(1), JStr("e")>>), JNum(1)}

ResponseWires ==
    {JObj(m) : m \in
        Extend(Extend(Extend(Extend({EmptyMap},
            "jsonrpc", {JStr("2.0"), JStr("1.0")}),
            "result", {JNull, JNum(1), JStr("a"), JArr(<<>>)}),
            "error", {JNull, JNum(5),
                      SerializeError(Error(1, "e", None)),
                      SerializeError(Error(1, "e", Some(JNull))),
                      JObj([code |-> JNum(1)])}),
            "id", {JNull, JNum(1), JStr("a"), JBool(TRUE)})}
    \cup {JArr(<<JStr("2.0"), JNum(1), JNull, JNull>>), JArr(<<>>), JNull}

-----------------------------------------------------------------------------
(* The message model as a state machine: a value is serialized and the     *)
(* text deserialized again, or a given text is deserialized.               *)

ProxyIdle ==
    /\ ppc = "off" /\ inbound = Nothing /\ upstreamReq = Nothing
    /\ upstreamResp = Nothing /\ stdoutFails = FALSE /\ stdout = <<>>
    /\ replies = <<>> /\ served = 0

ReplayIdle ==
    /\ rpc = "off" /\ stdin = <<>> /\ pos = 1 /\ cur = Nothing
    /\ posts = <<>> /\ live = <<>> /\ stderr = <<>> /\ exit = "running"

CodecIdle ==
    /\ cpc = "off" /\ ckind = "none" /\ cfrom = "none"
    /\ cval = Nothing /\ cwire = Nothing /\ cout = Nothing

ServerIdle ==
    /\ mpc = "off" /\ ctrl_c = FALSE /\ conns = <<>> /\ calls = <<>>
    /\ lock = 0 /\ chunks = <<>>

InitCodec ==
    /\ ckind \in {"Request", "Response", "Error"}
    /\ cfrom \in {"value", "wire"}
    /\ cpc = IF cfrom = "value" THEN "encode" ELSE "decode"
    /\ cval \in IF cfrom = "wire" THEN {Nothing}
                ELSE CASE ckind = "Request" -> Requests
                       [] ckind = "Response" -> Responses
                       [] ckind = "Error" -> Errors
    /\ cwire \in IF cfrom = "value" THEN {Nothing}
                 ELSE CASE ckind = "Request" -> RequestWires
                        [] ckind = "Response" -> ResponseWires
                        [] ckind = "Error" -> ErrorWires
    /\ cout = Nothing
    /\ ProxyIdle
    /\ ReplayIdle
    /\ ServerIdle

EncodeRequest ==
    /\ cpc = "encode" /\ ckind = "Request"
    /\ cwire' = SerializeRequest(cval)
    /\ cpc' = "decode"
    /\ UNCHANGED <<ckind, cfrom, cval, cout>>
    /\ UNCHANGED proxyVars /\ UNCHANGED replayVars /\ UNCHANGED serverVars

EncodeResponse ==
    /\ cpc = "encode" /\ ckind = "Response"
    /\ cwire' = SerializeResponse(cval)
    /\ cpc' = "decode"
    /\ UNCHANGED <<ckind, cfrom, cval, cout>>
    /\ UNCHANGED proxyVars /\ UNCHANGED replayVars /\ UNCHANGED serverVars

EncodeError ==
    /\ cpc = "encode" /\ ckind = "Error"
    /\ cwire' = SerializeError(cval)
    /\ cpc' = "decode"
    /\ UNCHANGED <<ckind, cfrom, cval, cout>>
    /\ UNCHANGED proxyVars /\ UNCHANGED replayVars /\ UNCHANGED serverVars

DecodeRequest ==
    /\ cpc = "decode" /\ ckind = "Request"
    /\ cout' \in DeserializeRequest(cwire)
    /\ cpc' = "done"
    /\ UNCHANGED <<ckind, cfrom, cval, cwire>>
    /\ UNCHANGED proxyVars /\ UNCHANGED replayVars /\ UNCHANGED serverVars

DecodeResponse ==
    /\ cpc = "decode" /\ ckind = "Response"
    /\ cout' \in DeserializeResponse(cwire)
    /\ cpc' = "done"
    /\ UNCHANGED <<ckind, cfrom, cval, cwire>>
    /\ UNCHANGED proxyVars /\ UNCHANGED replayVars /\ UNCHANGED serverVars

DecodeError ==
    /\ cpc = "decode" /\ ckind = "Error"
    /\ cout' \in DeserializeError(cwire)
    /\ cpc' = "done"
    /\ UNCHANGED <<ckind, cfrom, cval, cwire>>
    /\ UNCHANGED proxyVars /\ UNCHANGED replayVars /\ UNCHANGED serverVars

NextCodec ==
    \/ EncodeRequest \/ EncodeResponse \/ EncodeError
    \/ DecodeRequest \/ DecodeResponse \/ DecodeError

SpecCodec == InitCodec /\ [][NextCodec]_vars

-----------------------------------------------------------------------------
(* The capture proxy, src/bin/proxy.rs *)

\* Config.remote
Remote == "http://upstream/"

\* a body is bytes: the text of a JSON value, or bytes that are no JSON text
JsonBody(j) == [t |-> "json", v |-> j]
Garbage == [t |-> "bytes", v |-> JNull]

\* serde_json::from_slice::<jsonrpcli::Request> and ::<jsonrpcli::Response>
from_slice_Request(body) ==
    IF body.t = "json" THEN DeserializeRequest(body.v) ELSE {Err("expected value")}
from_slice_Response(body) ==
    IF body.t = "json" THEN DeserializeResponse(body.v) ELSE {Err("expected value")}

\* openrpc_types: ExampleValue, Example, ReferenceOr, ExamplePairing; the
\* fields the program always leaves None or default are not modelled
Embedded(v) == [t |-> "Embedded", v |-> v]
External(u) == [t |-> "External", v |-> u]
Example(name, value) == [name |-> name, value |-> value]
Item(x) == [t |-> "Item", v |-> x]
ExamplePairing(name, params, result) ==
    [name |-> name, params |-> params, result |-> result]

\* the orders in which a Map can be iterated: one order per build (sorted by
\* key, or insertion order with serde_json's preserve_order)
Orders(m) ==
    {o \in [1..Cardinality(DOMAIN m) -> DOMAIN m] :
        \A i, k \in DOMAIN o : i # k => o[i] # o[k]}

\* a mutant of ParamsOfByPosition: the parameters are reversed
ParamsOfByPositionReversed(a) ==
    [i \in 1..Len(a) |-> Item(Example(None, Embedded(a[Len(a) + 1 - i])))]

\* the arm ByPosition of the match on params in proxy()
ParamsOfByPosition(a) ==
    [i \in 1..Len(a) |-> Item(Example(None, Embedded(a[i])))]

\* the arm ByName of the match on params in proxy(), the map iterated in order o
ParamsOfByName(m, o) ==
    [i \in 1..Len(o) |-> Item(Example(Some(o[i]), Embedded(m[o[i]])))]

\* the pairings proxy() can build from a decoded request and a success value
PairingsOf(request, result) ==
    LET params == IF ~request.params.some THEN {<<>>}
                  ELSE IF request.params.v.t = "ByPosition"
                       THEN {ParamsOfByPosition(request.params.v.v)}
                       ELSE {ParamsOfByName(request.params.v.v, o) :
                                o \in Orders(request.params.v.v)}
    IN  {ExamplePairing(request.method, ps,
                        Some(Item(Example(None, Embedded(result))))) : ps \in params}

\* the if-let of proxy(): both bodies decode and the response is a success
Captures(rq, rs) == rq.ok /\ rs.ok /\ rs.v.result.ok

\* the inbound requests and the upstream responses that are enumerated
PingBody == JsonBody(SerializeRequest(Request("ping", Some(ByPosition(<<>>)), Some(IdNumber(1)))))
RequestBodies ==
    { PingBody,
      JsonBody(SerializeRequest(Request("m", Some(ByPosition(<<JNum(1), JStr("a")>>)), Some(IdNull)))),
      JsonBody(SerializeRequest(Request("m", Some(ByName([x |-> JNum(1), y |-> JNull])), Some(IdString("a"))))),
      JsonBody(SerializeRequest(Request("m", None, None))),
      JsonBody(JArr(<<SerializeRequest(Request("m", None, Some(IdNull)))>>)),
      JsonBody(JObj([jsonrpc |-> JStr("1.0"), method |-> JStr("m")])) }

InboundRequests ==
    {[method |-> "POST", uri |-> "/", headers |-> "content-type: application/json",
      body |-> b, complete |-> TRUE] : b \in RequestBodies}
    \cup {[method |-> "GET", uri |-> "/index.html", headers |-> "accept: text/html",
           body |-> Garbage, complete |-> TRUE],
          [method |-> "POST", uri |-> "/", headers |-> "content-type: application/json",
           body |-> PingBody, complete |-> FALSE]}

PongBody == JsonBody(JObj([jsonrpc |-> SerializeV2, result |-> JStr("pong"), id |-> JNum(1)]))
ErrorBody ==
    JsonBody(JObj([jsonrpc |-> SerializeV2, id |-> JNum(1),
                   error |-> SerializeError(Error(-32601, "Method not found", None))]))
UpstreamResponses ==
    {[status |-> 200, headers |-> "content-type: application/json", body |-> b,
      complete |-> TRUE] :
        b \in { PongBody, ErrorBody,
                JsonBody(SerializeResponse(Response(Ok(JNull), IdNull))),
                JsonBody(SerializeResponse(Response(Err(Error(1, "e", None)), IdNull))),
                JsonBody(JArr(<<PongBody.v>>)) }}
    \cup {[status |-> 404, headers |-> "content-type: text/html", body |-> Garbage,
           complete |-> TRUE],
          [status |-> 200, headers |-> "content-type: application/json",
           body |-> PongBody, complete |-> FALSE]}

InitProxy ==
    /\ ppc = "idle" /\ inbound = Nothing /\ upstreamReq = Nothing
    /\ upstreamResp = Nothing /\ stdoutFails = FALSE /\ stdout = <<>>
    /\ replies = <<>> /\ served = 0
    /\ CodecIdle
    /\ ReplayIdle
    /\ ServerIdle

ProxyFrame == UNCHANGED codecVars /\ UNCHANGED replayVars /\ UNCHANGED serverVars

\* hyper calls the service: proxy(request, client, config)
Call ==
    /\ ppc = "idle" /\ served < MaxRequests
    /\ inbound' \in InboundRequests
    /\ upstreamReq' = Nothing /\ upstreamResp' = Nothing
    /\ served' = served + 1
    /\ ppc' = "collect_request"
    /\ UNCHANGED <<stdoutFails, stdout, replies>>
    /\ ProxyFrame

\* req_body.collect().await? fails: proxy() returns the error
CollectRequestFails ==
    /\ ppc = "collect_request" /\ ~inbound.complete
    /\ replies' = Append(replies, Err("request body"))
    /\ ppc' = "idle"
    /\ UNCHANGED <<inbound, upstreamReq, upstreamResp, stdoutFails, stdout, served>>
    /\ ProxyFrame

\* the body is buffered, the URI replaced, the request handed to the client
SendUpstream ==
    /\ ppc = "collect_request" /\ inbound.complete
    /\ upstreamReq' = [method |-> inbound.method, uri |-> Remote,
                       headers |-> inbound.headers, body |-> inbound.body]
    /\ ppc' = "await_upstream"
    /\ UNCHANGED <<inbound, upstreamResp, stdoutFails, stdout, replies, served>>
    /\ ProxyFrame

\* client.request(..).await? fails: proxy() returns the error
UpstreamFails ==
    /\ ppc = "await_upstream"
    /\ replies' = Append(replies, Err("upstream"))
    /\ ppc' = "idle"
    /\ UNCHANGED <<inbound, upstreamReq, upstreamResp, stdoutFails, stdout, served>>
    /\ ProxyFrame

\* the upstream answers
UpstreamResponds ==
    /\ ppc = "await_upstream"
    /\ upstreamResp' \in UpstreamResponses
    /\ ppc' = "collect_response"
    /\ UNCHANGED <<inbound, upstreamReq, stdoutFails, stdout, replies, served>>
    /\ ProxyFrame

\* resp_body.collect().await? fails: proxy() returns the error
CollectResponseFails ==
    /\ ppc = "collect_response" /\ ~upstreamResp.complete
    /\ replies' = Append(replies, Err("response body"))
    /\ ppc' = "idle"
    /\ UNCHANGED <<inbound, upstreamReq, upstreamResp, stdoutFails, stdout, served>>
    /\ ProxyFrame

\* the if-let over both decoded bodies; the pairing is written under the
\* stdout lock, and the result of both writes is dropped
Capture ==
    /\ ppc = "collect_response" /\ upstreamResp.complete
    /\ \E rq \in from_slice_Request(inbound.body),
          rs \in from_slice_Response(upstreamResp.body) :
          IF Captures(rq, rs)
          THEN \E pairing \in PairingsOf(rq.v, rs.v.result.v), fails \in BOOLEAN :
                  /\ stdoutFails' = fails
                  /\ stdout' = Append(stdout, [pairing |-> pairing, written |-> ~fails])
          ELSE UNCHANGED <<stdoutFails, stdout>>
    /\ ppc' = "respond"
    /\ UNCHANGED <<inbound, upstreamReq, upstreamResp, replies, served>>
    /\ ProxyFrame

\* a mutant of Reply: a failed write of the pairing fails the request
ReplyUnlessWriteFailed(resp, failed) ==
    IF failed THEN Err("stdout")
    ELSE Ok([status |-> resp.status, headers |-> resp.headers, body |-> resp.body])

\* Ok(http::Response::from_parts(resp_parts, Full::new(resp_body)))
Reply(resp, failed) ==
    Ok([status |-> resp.status, headers |-> resp.headers, body |-> resp.body])

Respond ==
    /\ ppc = "respond"
    /\ replies' = Append(replies, Reply(upstreamResp, stdoutFails))
    /\ ppc' = "idle"
    /\ stdoutFails' = FALSE
    /\ UNCHANGED <<inbound, upstreamReq, upstreamResp, stdout, served>>
    /\ ProxyFrame

NextProxy ==
    \/ Call \/ CollectRequestFails \/ SendUpstream \/ UpstreamFails
    \/ UpstreamResponds \/ CollectResponseFails \/ Capture \/ Respond

SpecProxy == InitProxy /\ [][NextProxy]_vars

-----------------------------------------------------------------------------
(* The replay engine, src/bin/repro.rs *)

\* an item of the input stream: an ExamplePairing (openrpc_types::resolved,
\* so params and result hold Examples directly), or text that does not parse
\* as one
Parsed(p) == [t |-> "pairing", v |-> p]
Malformed == [t |-> "malformed"]

StreamItems ==
    { Parsed(ExamplePairing("m", <<>>, Some(Example(None, Embedded(JNum(42)))))),
      Parsed(ExamplePairing("n", <<Example(Some("x"), Embedded(JNum(1))),
                                   Example(None, Embedded(JStr("a")))>>,
                            Some(Example(None, Embedded(JNull))))),
      Parsed(ExamplePairing("m", <<Example(None, External("http://e/1"))>>,
                            Some(Example(None, Embedded(JNum(42)))))),
      Parsed(ExamplePairing("n", <<>>, Some(Example(None, External("http://e/2"))))),
      Parsed(ExamplePairing("m", <<Example(None, External("http://e/1"))>>, None)),
      Parsed(ExamplePairing("n", <<>>, None)),
      Malformed }

\* what a POST can come to: ureq fails, or a body is received
TransportFailure == [t |-> "transport"]
Received(body) == [t |-> "body", v |-> body]
LiveOutcomes ==
    {TransportFailure} \cup
    {Received(b) : b \in
        { JsonBody(SerializeResponse(Response(Ok(JNum(42)), IdNull))),
          JsonBody(SerializeResponse(Response(Ok(JNum(43)), IdNull))),
          JsonBody(JObj([jsonrpc |-> SerializeV2, id |-> JNull, result |-> JNull])),
          JsonBody(JObj([jsonrpc |-> SerializeV2, id |-> JNull,
                         error |-> SerializeError(Error(-32601, "Method not found", None))])),
          JsonBody(SerializeResponse(Response(Err(Error(1, "e", None)), IdNull))),
          Garbage }}

\* the lines on the error stream
Mismatch(method) == [t |-> "mismatch", method |-> method, message |-> ""]
Fatal(method, message) == [t |-> "fatal", method |-> method, message |-> message]

\* the if-let pattern of main(): the pairing has a result and it is Embedded
HasEmbeddedResult(p) == p.result.some /\ p.result.v.value.t = "Embedded"

\* the closure over params: an External value bails
HasExternalParam(p) == \E i \in 1..Len(p.params) : p.params[i].value.t = "External"

\* the request main() builds for a pairing
RequestOf(p) ==
    Request(p.name,
            Some(ByPosition([i \in 1..Len(p.params) |-> p.params[i].value.v])),
            Some(IdNull))

InitReplay ==
    /\ rpc = "read"
    /\ stdin \in SeqsUpTo(StreamItems, MaxPairings)
    /\ pos = 1 /\ cur = Nothing
    /\ posts = <<>> /\ live = <<>> /\ stderr = <<>> /\ exit = "running"
    /\ CodecIdle
    /\ ProxyIdle
    /\ ServerIdle

ReplayFrame == UNCHANGED codecVars /\ UNCHANGED proxyVars /\ UNCHANGED serverVars

\* main() returns Err(e): the error is printed and the exit status is failure
Bail(method, message) ==
    /\ stderr' = Append(stderr, Fatal(method, message))
    /\ exit' = "failure"
    /\ rpc' = "exit"

\* the iterator yields an item that is not an ExamplePairing: it? returns
ReadMalformed ==
    /\ rpc = "read" /\ pos <= Len(stdin) /\ stdin[pos] = Malformed
    /\ Bail("", "parse error")
    /\ UNCHANGED <<stdin, pos, cur, posts, live>>
    /\ ReplayFrame

\* the if-let does not match: the loop goes on to the next item
SkipPairing ==
    /\ rpc = "read" /\ pos <= Len(stdin) /\ stdin[pos] # Malformed
    /\ ~HasEmbeddedResult(stdin[pos].v)
    /\ pos' = pos + 1
    /\ UNCHANGED <<rpc, stdin, cur, posts, live, stderr, exit>>
    /\ ReplayFrame

\* the if-let matches and a parameter is External: bail!
RejectExternalParam ==
    /\ rpc = "read" /\ pos <= Len(stdin) /\ stdin[pos] # Malformed
    /\ HasEmbeddedResult(stdin[pos].v) /\ HasExternalParam(stdin[pos].v)
    /\ Bail("", "unexpected external example value")
    /\ UNCHANGED <<stdin, pos, cur, posts, live>>
    /\ ReplayFrame

\* the if-let matches: the request is built and POSTed
SendPairing ==
    /\ rpc = "read" /\ pos <= Len(stdin) /\ stdin[pos] # Malformed
    /\ HasEmbeddedResult(stdin[pos].v) /\ ~HasExternalParam(stdin[pos].v)
    /\ cur' = stdin[pos].v
    /\ posts' = Append(posts, RequestOf(stdin[pos].v))
    /\ rpc' = "await"
    /\ UNCHANGED <<stdin, pos, live, stderr, exit>>
    /\ ReplayFrame

\* send_json(..)? fails
PostFails ==
    /\ rpc = "await"
    /\ live' = Append(live, TransportFailure)
    /\ Bail("", "transport error")
    /\ UNCHANGED <<stdin, pos, cur, posts>>
    /\ ReplayFrame

\* a mutant of MismatchLines: a mismatch is reported twice
MismatchLinesTwice(method, expected, actual) ==
    IF expected = actual THEN <<>> ELSE <<Mismatch(method), Mismatch(method)>>

\* match expected_result == actual_result
MismatchLines(method, expected, actual) ==
    IF expected = actual THEN <<>> ELSE <<Mismatch(method)>>

\* a mutant of ErrorLine: the diagnostic does not carry the error's message
ErrorLineNoMessage(method, e) == Fatal(method, "")

\* bail!("error for {}: {}", method_name, e.message)
ErrorLine(method, e) == Fatal(method, e.message)

\* a body is received: into_json::<Response>()? and the match on its result
ReceiveResponse ==
    /\ rpc = "await"
    /\ \E o \in LiveOutcomes \ {TransportFailure} :
          /\ live' = Append(live, o)
          /\ \E rs \in from_slice_Response(o.v) :
                IF ~rs.ok
                THEN /\ Bail("", rs.e)
                     /\ UNCHANGED pos
                ELSE IF rs.v.result.ok
                THEN /\ stderr' = stderr \o MismatchLines(cur.name, cur.result.v.value.v,
                                                          rs.v.result.v)
                     /\ pos' = pos + 1
                     /\ rpc' = "read"
                     /\ UNCHANGED exit
                ELSE /\ stderr' = Append(stderr, ErrorLine(cur.name, rs.v.result.e))
                     /\ exit' = "failure"
                     /\ rpc' = "exit"
                     /\ UNCHANGED pos
    /\ UNCHANGED <<stdin, cur, posts>>
    /\ ReplayFrame

\* the input is exhausted: Ok(())
EndOfInput ==
    /\ rpc = "read" /\ pos > Len(stdin)
    /\ exit' = "success"
    /\ rpc' = "exit"
    /\ UNCHANGED <<stdin, pos, cur, posts, live, stderr>>
    /\ ReplayFrame

NextReplay ==
    \/ ReadMalformed \/ SkipPairing \/ RejectExternalParam \/ SendPairing
    \/ PostFails \/ ReceiveResponse \/ EndOfInput

SpecReplay == InitReplay /\ [][NextReplay]_vars

-----------------------------------------------------------------------------
(* The capture proxy as a server, src/bin/proxy.rs _main: the accept loop, *)
(* the connection tasks it spawns and the calls of proxy() they make,      *)
(* running concurrently. A call is cut at its await points and at each     *)
(* statement that touches the side output.                                 *)

\* what serve_connection_with_upgrades of the auto Builder serves: HTTP/1,
\* one request at a time, or HTTP/2, any number of streams at a time. The
\* Builder reads the version off the first bytes the peer sends, so a
\* connection starts with its protocol unread.
Protocols == {"h1", "h2"}
Connection == [proto |-> "unread", state |-> "open"]

\* a call of proxy(): its connection, its position and the pairing it
\* captures (Nothing before the response is buffered and when the if-let does
\* not match)
Handler(c) == [conn |-> c, pc |-> "upstream", pairing |-> Nothing]

\* a write to the side output; its result is dropped by let _
Chunk(k, part, v) == [call |-> k, part |-> part, v |-> v]

ServerRequestBodies == {PingBody, Garbage}
ServerResponseBodies == {PongBody, ErrorBody}

InFlight(k) == calls[k].pc \notin {"replied", "failed", "dropped"}
CallsOf(c) == {k \in DOMAIN calls : calls[k].conn = c}

InitServer ==
    /\ mpc = "select" /\ ctrl_c = FALSE /\ conns = <<>> /\ calls = <<>>
    /\ lock = 0 /\ chunks = <<>>
    /\ CodecIdle
    /\ ProxyIdle
    /\ ReplayIdle

ServerFrame == UNCHANGED codecVars /\ UNCHANGED proxyVars /\ UNCHANGED replayVars

\* select!: listener.accept() yields a stream; the connection is served,
\* watched by graceful and spawned
Accept ==
    /\ mpc = "select" /\ Len(conns) + Len(calls) < MaxTasks
    /\ conns' = Append(conns, Connection)
    /\ UNCHANGED <<mpc, ctrl_c, calls, lock, chunks>>
    /\ ServerFrame

\* select!: listener.accept() yields Err: it is logged and the loop sleeps
AcceptError ==
    /\ mpc = "select"
    /\ mpc' = "sleep"
    /\ UNCHANGED <<ctrl_c, conns, calls, lock, chunks>>
    /\ ServerFrame

\* the sleep of one second is over: continue
BackoffDone ==
    /\ mpc = "sleep"
    /\ mpc' = "select"
    /\ UNCHANGED <<ctrl_c, conns, calls, lock, chunks>>
    /\ ServerFrame

\* the operator sends the signal: the ctrl_c future becomes ready
CtrlC ==
    /\ mpc # "exited" /\ ~ctrl_c
    /\ ctrl_c' = TRUE
    /\ UNCHANGED <<mpc, conns, calls, lock, chunks>>
    /\ ServerFrame

\* select!: ctrl_c is ready: the listener is dropped and the loop is left for
\* the select! on graceful.shutdown() and the sleep of ten seconds
ObserveCtrlC ==
    /\ mpc = "select" /\ ctrl_c
    /\ mpc' = "shutdown"
    /\ UNCHANGED <<ctrl_c, conns, calls, lock, chunks>>
    /\ ServerFrame

\* graceful.shutdown() is ready: every watched connection is gone; _main
\* returns and the runtime is dropped, so that no task is polled again
GracefulShutdown ==
    /\ mpc = "shutdown"
    /\ \A c \in DOMAIN conns : conns[c].state # "open"
    /\ mpc' = "exited"
    /\ UNCHANGED <<ctrl_c, conns, calls, lock, chunks>>
    /\ ServerFrame

\* a mutant of GraceElapsed: the wait for the connections has no time limit
GraceNeverElapses ==
    /\ mpc = "shutdown"
    /\ \A c \in DOMAIN conns : conns[c].state # "open"
    /\ mpc' = "exited"
    /\ UNCHANGED <<ctrl_c, conns, calls, lock, chunks>>
    /\ ServerFrame

\* the sleep of ten seconds is over: _main returns and the runtime is dropped
GraceElapsed ==
    /\ mpc = "shutdown"
    /\ mpc' = "exited"
    /\ UNCHANGED <<ctrl_c, conns, calls, lock, chunks>>
    /\ ServerFrame

\* a request arrives on a connection and the service is called; the first
\* request of a connection settles its protocol. An HTTP/1 connection has one
\* request in flight; once graceful.shutdown() is polled the connections take
\* no new request.
ServeRequest(c) ==
    /\ mpc \in {"select", "sleep"}
    /\ conns[c].state = "open" /\ Len(conns) + Len(calls) < MaxTasks
    /\ conns[c].proto = "h1" => \A k \in CallsOf(c) : ~InFlight(k)
    /\ calls' = Append(calls, Handler(c))
    /\ IF conns[c].proto = "unread"
       THEN \E proto \in Protocols : conns' = [conns EXCEPT ![c].proto = proto]
       ELSE UNCHANGED conns
    /\ UNCHANGED <<mpc, ctrl_c, lock, chunks>>
    /\ ServerFrame

\* one of the three ? of proxy() returns Err to the connection. On HTTP/1 an
\* error of the service ends the connection, whose future yields Err
\* ("connection error"); on HTTP/2 it resets the stream of that request.
ServiceError(k) ==
    /\ mpc # "exited" /\ calls[k].pc = "upstream"
    /\ calls' = [calls EXCEPT ![k].pc = "failed"]
    /\ conns' = IF conns[calls[k].conn].proto = "h1"
                THEN [conns EXCEPT ![calls[k].conn].state = "error"]
                ELSE conns
    /\ UNCHANGED <<mpc, ctrl_c, lock, chunks>>
    /\ ServerFrame

\* the response body is collected and the if-let over the two decodes is
\* evaluated
ResponseBuffered(k) ==
    /\ mpc # "exited" /\ calls[k].pc = "upstream"
    /\ \E req \in ServerRequestBodies, resp \in ServerResponseBodies :
       \E rq \in from_slice_Request(req), rs \in from_slice_Response(resp) :
          IF Captures(rq, rs)
          THEN \E pairing \in PairingsOf(rq.v, rs.v.result.v) :
                  calls' = [calls EXCEPT ![k].pc = "buffered", ![k].pairing = pairing]
          ELSE calls' = [calls EXCEPT ![k].pc = "buffered"]
    /\ UNCHANGED <<mpc, ctrl_c, conns, lock, chunks>>
    /\ ServerFrame

\* a mutant of LockStdout: the side output is written without its lock
LockStdoutUnguarded(k) ==
    /\ mpc # "exited" /\ calls[k].pc = "buffered" /\ calls[k].pairing # Nothing
    /\ lock' = k
    /\ calls' = [calls EXCEPT ![k].pc = "locked"]
    /\ UNCHANGED <<mpc, ctrl_c, conns, chunks>>
    /\ ServerFrame

\* io::stdout().lock(): the thread waits until the lock is free
LockStdout(k) ==
    /\ mpc # "exited" /\ calls[k].pc = "buffered" /\ calls[k].pairing # Nothing
    /\ lock = 0
    /\ lock' = k
    /\ calls' = [calls EXCEPT ![k].pc = "locked"]
    /\ UNCHANGED <<mpc, ctrl_c, conns, chunks>>
    /\ ServerFrame

\* serde_json::to_writer(&mut stdout, &pairing)
WriteRecord(k) ==
    /\ mpc # "exited" /\ calls[k].pc = "locked"
    /\ chunks' = Append(chunks, Chunk(k, "record", calls[k].pairing))
    /\ calls' = [calls EXCEPT ![k].pc = "wrote"]
    /\ UNCHANGED <<mpc, ctrl_c, conns, lock>>
    /\ ServerFrame

\* writeln!(stdout), and the guard is dropped at the end of the block
WriteNewline(k) ==
    /\ mpc # "exited" /\ calls[k].pc = "wrote"
    /\ chunks' = Append(chunks, Chunk(k, "newline", Nothing))
    /\ lock' = 0
    /\ calls' = [calls EXCEPT ![k].pc = "written"]
    /\ UNCHANGED <<mpc, ctrl_c, conns>>
    /\ ServerFrame

\* Ok(http::Response::from_parts(resp_parts, Full::new(resp_body)))
ReturnResponse(k) ==
    /\ mpc # "exited"
    /\ \/ calls[k].pc = "written"
       \/ calls[k].pc = "buffered" /\ calls[k].pairing = Nothing
    /\ calls' = [calls EXCEPT ![k].pc = "replied"]
    /\ UNCHANGED <<mpc, ctrl_c, conns, lock, chunks>>
    /\ ServerFrame

\* the connection ends (the peer closes it, or it is idle when the graceful
\* shutdown starts): its future yields Ok and the calls it was awaiting are
\* dropped at their await
CloseConn(c) ==
    /\ mpc # "exited" /\ conns[c].state = "open"
    /\ \A k \in CallsOf(c) : InFlight(k) => calls[k].pc = "upstream"
    /\ conns' = [conns EXCEPT ![c].state = "closed"]
    /\ calls' = [k \in DOMAIN calls |->
                    IF calls[k].conn = c /\ InFlight(k)
                    THEN [calls[k] EXCEPT !.pc = "dropped"]
                    ELSE calls[k]]
    /\ UNCHANGED <<mpc, ctrl_c, lock, chunks>>
    /\ ServerFrame

NextServer ==
    \/ Accept \/ AcceptError \/ BackoffDone \/ CtrlC \/ ObserveCtrlC
    \/ GracefulShutdown \/ GraceElapsed
    \/ \E c \in DOMAIN conns : ServeRequest(c) \/ CloseConn(c)
    \/ \E k \in DOMAIN calls :
          \/ ServiceError(k) \/ ResponseBuffered(k)
          \/ LockStdout(k) \/ WriteRecord(k) \/ WriteNewline(k)
          \/ ReturnResponse(k)

SpecServer == InitServer /\ [][NextServer]_vars

\* the timers of tokio fire, and the select! of the accept loop, which polls
\* its branches in random order, takes the ctrl_c branch once it is ready;
\* nothing is assumed of the connections
FairSpecServer ==
    /\ SpecServer
    /\ WF_vars(BackoffDone)
    /\ SF_vars(ObserveCtrlC)
    /\ WF_vars(GraceElapsed)

-----------------------------------------------------------------------------
(* Properties of the message model, checked under SpecCodec *)

Encoded(kind) == cfrom = "value" /\ ckind = kind /\ cpc \in {"decode", "done"}
DecodedObject(kind) ==
    cfrom = "wire" /\ ckind = kind /\ cpc = "done" /\ cwire.t = "obj"
Has(m, k) == k \in DOMAIN m

\* the members of a request object other than k are valid
RequestValidBut(m, k) ==
    /\ k = "jsonrpc" \/ (Has(m, "jsonrpc") /\ m["jsonrpc"] = JStr("2.0"))
    /\ k = "method" \/ (Has(m, "method") /\ m["method"].t = "str")
    /\ k = "params" \/ ~Has(m, "params") \/ m["params"].t \in {"arr", "obj", "null"}
    /\ k = "id" \/ ~Has(m, "id") \/ m["id"].t \in {"str", "num", "null"}

\* C1 (as claimed): decoding the encoding of any Request, Error or Response
\* value succeeds and yields a value equal to the one encoded.
RoundTrip == (cfrom = "value" /\ cpc = "done") => cout = Ok(cval)

\* the members jsonrpc and id of a response object are valid, and the member
\* error, when present, is null or a well-formed error object
ResponseWellFormed(m) ==
    /\ Has(m, "jsonrpc") /\ m["jsonrpc"] = JStr("2.0")
    /\ Has(m, "id") /\ m["id"].t \in {"str", "num", "null"}
    /\ Has(m, "error") =>
          \/ m["error"] = JNull
          \/ \E e \in Errors : m["error"] = SerializeError(e)

\* C2 (as claimed): a well-formed response object with both result and error
\* present (whatever their values, null included) fails to decode with the
\* "only one" error; with neither present it fails with the "must have"
\* error; with exactly one present it decodes.
ResponsePresenceInvariant ==
    (DecodedObject("Response") /\ ResponseWellFormed(cwire.v)) =>
        LET r == Has(cwire.v, "result")
            e == Has(cwire.v, "error")
        IN  /\ (r /\ e) => cout = Err(OnlyOneMsg)
            /\ (~r /\ ~e) => cout = Err(MustHaveMsg)
            /\ (r # e) => cout.ok

\* C3 (as claimed): the encoding of a Response carries jsonrpc, id and exactly
\* one of result and error: result for a success value, error for an Error;
\* the other key is not emitted.
ResponseEncodesOneMember ==
    Encoded("Response") =>
        DOMAIN cwire.v = {"jsonrpc", "id"} \cup
                         (IF cval.result.ok THEN {"result"} ELSE {"error"})

\* C4: a request object without the key id decodes to a Request with no id,
\* which is a notification; one with id: null decodes to a Request with id
\* Null, which is not a notification; the two decoded values differ.  A
\* Request with no id is encoded without the key id, a Request with id Null
\* is encoded with id: null.
AbsentIdIsNotNullId ==
    /\ (DecodedObject("Request") /\ RequestValidBut(cwire.v, "id")) =>
          /\ ~Has(cwire.v, "id") =>
                /\ cout.ok /\ cout.v.id = None /\ is_notification(cout.v)
                /\ \A o \in DeserializeRequest(JObj(With(cwire.v, "id", JNull))) :
                      o.ok /\ o # cout
          /\ (Has(cwire.v, "id") /\ cwire.v["id"] = JNull) =>
                cout.ok /\ cout.v.id = Some(IdNull) /\ ~is_notification(cout.v)
    /\ Encoded("Request") =>
          /\ cval.id = None => ~Has(cwire.v, "id")
          /\ cval.id = Some(IdNull) => (Has(cwire.v, "id") /\ cwire.v["id"] = JNull)

\* C4 witness: a request object with id: null has been decoded to a Request
\* that is not a notification
AbsentIdIsNotNullIdWitness ==
    /\ DecodedObject("Request") /\ Has(cwire.v, "id") /\ cwire.v["id"] = JNull
    /\ cout.ok /\ ~is_notification(cout.v)

\* what C5 says of params that are an array or an object
ParamsStructured ==
    /\ cwire.v["params"].t = "arr" =>
          /\ cout.ok => cout.v.params = Some(ByPosition(cwire.v["params"].v))
          /\ RequestValidBut(cwire.v, "params") => cout.ok
    /\ cwire.v["params"].t = "obj" =>
          /\ cout.ok => cout.v.params = Some(ByName(cwire.v["params"].v))
          /\ RequestValidBut(cwire.v, "params") => cout.ok

\* C5 (as claimed): params given as an array decode as ByPosition, as an
\* object as ByName, and as null, a boolean, a number or a string are a
\* decode error.
ParamsShapeDispatchOriginal ==
    (DecodedObject("Request") /\ Has(cwire.v, "params")) =>
        /\ ParamsStructured
        /\ cwire.v["params"].t \in {"null", "bool", "num", "str"} => ~cout.ok

\* C5 (amended): params given as an array decode as ByPosition, as an object
\* as ByName, and as a boolean, a number or a string are a decode error;
\* params given as null decode as absent params.
ParamsShapeDispatch ==
    (DecodedObject("Request") /\ Has(cwire.v, "params")) =>
        /\ ParamsStructured
        /\ cwire.v["params"].t \in {"bool", "num", "str"} => ~cout.ok
        /\ cwire.v["params"] = JNull =>
              /\ cout.ok => cout.v.params = None
              /\ RequestValidBut(cwire.v, "params") => cout.ok

\* C5 witness: a request object with params: null has been decoded without
\* error
ParamsShapeDispatchWitness ==
    /\ DecodedObject("Request") /\ Has(cwire.v, "params")
    /\ cwire.v["params"] = JNull /\ cout.ok

-----------------------------------------------------------------------------
(* Properties of the capture proxy, checked under SpecProxy *)

\* the step in which proxy() decides on the capture of the buffered pair
CaptureStep == ppc = "collect_response" /\ ppc' = "respond"

\* both buffered bodies decode as single messages and the response carries a
\* success value
PairCaptured ==
    /\ \E rq \in from_slice_Request(inbound.body) : rq.ok
    /\ \E rs \in from_slice_Response(upstreamResp.body) : rs.ok /\ rs.v.result.ok

\* pairing p is the one C6 describes for the request rq and the success value v
PairingMatches(p, rq, v) ==
    /\ p.name = rq.method
    /\ p.result = Some(Item(Example(None, Embedded(v))))
    /\ ~rq.params.some => p.params = <<>>
    /\ (rq.params.some /\ rq.params.v.t = "ByPosition") =>
          /\ Len(p.params) = Len(rq.params.v.v)
          /\ \A i \in 1..Len(p.params) :
                /\ p.params[i].t = "Item"
                /\ p.params[i].v.name = None
                /\ p.params[i].v.value = Embedded(rq.params.v.v[i])
    /\ (rq.params.some /\ rq.params.v.t = "ByName") =>
          /\ Len(p.params) = Cardinality(DOMAIN rq.params.v.v)
          /\ \A k \in DOMAIN rq.params.v.v :
                \E i \in 1..Len(p.params) :
                    /\ p.params[i].t = "Item"
                    /\ p.params[i].v.name = Some(k)
                    /\ p.params[i].v.value = Embedded(rq.params.v.v[k])

\* C6: proxy() writes one pairing for a buffered request/response pair
\* exactly if both bodies decode as single messages and the response carries
\* a success value, and nothing in every other case; the pairing has the
\* request's method as its name, the request's parameters one for one as
\* embedded examples (by position in order and unnamed, by name with their
\* names, none when absent) and the success value as its embedded result.
\* A write that the side output refuses counts as the write of proxy().
CaptureConditionAndContent ==
    [][ /\ (CaptureStep /\ PairCaptured) =>
              /\ Len(stdout') = Len(stdout) + 1
              /\ SubSeq(stdout', 1, Len(stdout)) = stdout
              /\ \A rq \in from_slice_Request(inbound.body),
                    rs \in from_slice_Response(upstreamResp.body) :
                    PairingMatches(stdout'[Len(stdout')].pairing, rq.v, rs.v.result.v)
        /\ ~(CaptureStep /\ PairCaptured) => stdout' = stdout ]_vars

\* C6 witness: the pair ping / "pong" has been captured
CaptureWitness ==
    /\ Len(stdout) > 0
    /\ stdout[1].pairing =
          ExamplePairing("ping", <<>>, Some(Item(Example(None, Embedded(JStr("pong"))))))

\* C7: the request sent upstream is the caller's with only the URI replaced,
\* and every call of proxy() whose upstream round trip completed returns the
\* upstream's status, headers and body, whatever the bodies are, whether or
\* not a pairing was written and whether or not that write failed.
ForwardingUnaffected ==
    /\ upstreamReq # Nothing =>
          /\ upstreamReq.method = inbound.method
          /\ upstreamReq.headers = inbound.headers
          /\ upstreamReq.body = inbound.body
          /\ upstreamReq.uri = Remote
    /\ ppc = "idle" => Len(replies) = served
    /\ (ppc = "idle" /\ upstreamResp # Nothing /\ upstreamResp.complete) =>
          replies[served] = Ok([status |-> upstreamResp.status,
                                headers |-> upstreamResp.headers,
                                body |-> upstreamResp.body])

\* C7 witness: a call whose pairing could not be written has returned the
\* upstream's response
ForwardingWitness ==
    /\ ppc = "idle" /\ served > 0 /\ Len(stdout) > 0
    /\ ~stdout[Len(stdout)].written
    /\ replies[served].ok /\ replies[served].v.body = upstreamResp.body

-----------------------------------------------------------------------------
(* Properties of the replay engine, checked under SpecReplay *)

\* item i of the input is a pairing with an ExternalReference among its
\* params or as its result
Unreplayable(i) ==
    /\ stdin[i] # Malformed
    /\ \/ HasExternalParam(stdin[i].v)
       \/ stdin[i].v.result.some /\ stdin[i].v.result.v.value.t = "External"

\* C8 (as claimed): a pairing with an ExternalReference in its params or as
\* its result aborts the run: the loop never goes past it, no request is
\* sent for it, and the run does not end with success.
UnreplayableAborts ==
    \A i \in DOMAIN stdin :
        Unreplayable(i) =>
            /\ pos <= i
            /\ exit # "success"
            /\ pos = i => (rpc = "read" \/ exit = "failure")

\* the live response o decoded to a Response carrying an Error / a success
CarriesError(o) ==
    /\ o # TransportFailure
    /\ \E rs \in from_slice_Response(o.v) : rs.ok /\ ~rs.v.result.ok
CarriesSuccess(o) ==
    /\ o # TransportFailure
    /\ \E rs \in from_slice_Response(o.v) : rs.ok /\ rs.v.result.ok
LiveResponse(o) == (CHOOSE rs \in from_slice_Response(o.v) : rs.ok).v

\* C9: when the live response to a replayed pairing carries an Error, the run
\* has ended with a failing status, its last diagnostic is the fatal one
\* naming the pairing's method and the error's message, and no request was
\* sent after the one that was answered with the Error.
ErrorResponseIsFatal ==
    \A j \in DOMAIN live :
        CarriesError(live[j]) =>
            /\ j = Len(live) /\ Len(posts) = j
            /\ rpc = "exit" /\ exit = "failure"
            /\ pos <= Len(stdin) /\ stdin[pos] = Parsed(cur)
            /\ posts[j].method = cur.name
            /\ stderr[Len(stderr)] =
                  Fatal(cur.name, LiveResponse(live[j]).result.e.message)

\* C9 witness: the run has ended on an Error response with a pairing left
\* unread
ErrorResponseIsFatalWitness ==
    /\ Len(live) > 0 /\ CarriesError(live[Len(live)])
    /\ exit = "failure" /\ pos < Len(stdin)

\* the items of the input a request is sent for, and the j-th of them
Sendable ==
    {i \in DOMAIN stdin : /\ stdin[i] # Malformed
                          /\ HasEmbeddedResult(stdin[i].v)
                          /\ ~HasExternalParam(stdin[i].v)}
NthSendable(j) ==
    CHOOSE i \in Sendable : Cardinality({k \in Sendable : k < i}) = j - 1

\* the j-th request was answered with a success value that differs from the
\* recorded result
IsMismatch(j) ==
    /\ CarriesSuccess(live[j])
    /\ LiveResponse(live[j]).result.v # stdin[NthSendable(j)].v.result.v.value.v

\* one mismatch line per mismatching answer among the first j, in input order
RECURSIVE ExpectedMismatches(_)
ExpectedMismatches(j) ==
    IF j = 0 THEN <<>>
    ELSE ExpectedMismatches(j - 1) \o
         (IF IsMismatch(j) THEN <<Mismatch(stdin[NthSendable(j)].v.name)>> ELSE <<>>)

IsMismatchLine(d) == d.t = "mismatch"

\* a condition that is fatal by the code holds at the item the run stopped at
FatalCondition ==
    \/ pos <= Len(stdin) /\ stdin[pos] = Malformed
    \/ pos <= Len(stdin) /\ pos \notin Sendable /\ HasEmbeddedResult(stdin[pos].v)
    \/ Len(live) > 0 /\ ~CarriesSuccess(live[Len(live)])

\* C10: the mismatch diagnostics are exactly one line per replayed pairing
\* whose live success value differs from the recorded result, naming its
\* method, in input order, and none for a pairing whose values are equal; a
\* mismatch never ends the run: a run that fails has met a fatal condition,
\* and a run that ends with success has read every item and sent a request
\* for every pairing it replays.
MismatchIsReportedAndNotFatal ==
    /\ SelectSeq(stderr, IsMismatchLine) = ExpectedMismatches(Len(live))
    /\ exit = "failure" => FatalCondition
    /\ exit = "success" =>
          /\ pos = Len(stdin) + 1
          /\ Len(posts) = Cardinality(Sendable) /\ Len(live) = Len(posts)
          /\ stderr = ExpectedMismatches(Len(live))

\* C10 witness: a run of two pairings that both mismatch has ended with
\* success and both diagnostics, in input order
MismatchWitness ==
    /\ exit = "success"
    /\ stderr = <<Mismatch("m"), Mismatch("n")>>


\* the items the loop has taken up without meeting a fatal condition: those
\* it has moved past and the one whose request is in flight, leaving out the
\* pairings that hold an ExternalReference
Replayed ==
    {i \in DOMAIN stdin : /\ i < pos \/ (i = pos /\ rpc = "await")
                          /\ stdin[i] # Malformed
                          /\ ~Unreplayable(i)}

\* the request the replay sends for a pairing: the pairing's name, its
\* embedded values by position in their order, and the Null id
IsResendOf(r, p) ==
    /\ r.method = p.name
    /\ r.params.some /\ r.params.v.t = "ByPosition"
    /\ Len(r.params.v.v) = Len(p.params)
    /\ \A k \in 1..Len(p.params) : r.params.v.v[k] = p.params[k].value.v
    /\ r.id = Some(IdNull)
    /\ ~is_notification(r)

\* C11 (as claimed): every pairing read before a fatal condition, a pairing
\* with no params and a pairing with no recorded result included, has exactly
\* one POST, sent one at a time and in input order, whose body is the Request
\* with the pairing's name, its embedded values by position and the Null id.
ReplayResendsEach ==
    /\ \A i \in Replayed :
          LET k == Cardinality({h \in Replayed : h <= i})
          IN  /\ Len(posts) >= k
              /\ IsResendOf(posts[k], stdin[i].v)
    /\ Len(posts) <= Cardinality(Replayed) + 1
    /\ Len(live) <= Len(posts) /\ Len(posts) <= Len(live) + 1

\* what holds of the code: the same, for the pairings that carry an embedded
\* recorded result
ReplayResendsEachWithResult ==
    /\ \A i \in Replayed \cap Sendable :
          LET k == Cardinality({h \in Replayed \cap Sendable : h <= i})
          IN  /\ Len(posts) >= k
              /\ IsResendOf(posts[k], stdin[i].v)
    /\ Len(posts) <= Cardinality(Replayed \cap Sendable) + 1
    /\ Len(live) <= Len(posts) /\ Len(posts) <= Len(live) + 1

-----------------------------------------------------------------------------
(* Properties of the capture proxy as a server, checked under SpecServer   *)
(* and FairSpecServer                                                      *)

Stopping == mpc \in {"shutdown", "exited"}

\* C12: once the accept loop has observed the cancellation signal, no
\* connection is accepted any more and the loop is not entered again; the
\* connections accepted before may go on until the process ends; and after
\* the signal the process always ends, by the graceful shutdown or by the
\* grace period, whatever the connections do.
ProxyShutdown ==
    /\ [][Stopping => Len(conns') = Len(conns) /\ Stopping']_vars
    /\ [][mpc' = "exited" /\ mpc # "exited" => mpc = "shutdown"]_vars
    /\ ctrl_c ~> (mpc = "exited")

\* C12 witness: the process has ended after the signal while a connection
\* accepted before it is still open with a request in flight
ProxyShutdownWitness ==
    /\ mpc = "exited" /\ ctrl_c
    /\ \E k \in DOMAIN calls : InFlight(k) /\ conns[calls[k].conn].state = "open"

\* C13 (as claimed): the accept loop is left by the cancellation signal only,
\* an accept error included, and a request that fails at the upstream leaves
\* its connection serving: no connection ends in error.
FailureScoping ==
    /\ Stopping => ctrl_c
    /\ \A k \in DOMAIN calls :
          calls[k].pc = "failed" => conns[calls[k].conn].state # "error"

\* what holds of the code: the accept loop is left by the signal only, and a
\* failed request ends no connection but its own
FailureScopingOtherConnections ==
    /\ Stopping => ctrl_c
    /\ \A c \in DOMAIN conns :
          conns[c].state = "error" =>
              \E k \in CallsOf(c) : calls[k].pc = "failed"

ChunksOf(k) == SelectSeq(chunks, LAMBDA ch : ch.call = k)

\* C14: a captured pairing is written as its record followed by its line
\* terminator, by a call that holds the lock of the output, so that nothing
\* comes between a record and its terminator; and a call writes after its
\* response is buffered and has written both before it returns the response.
CaptureWritesAreAtomic ==
    /\ \A k \in DOMAIN calls : calls[k].pc \in {"locked", "wrote"} => lock = k
    /\ \A i \in DOMAIN chunks :
          /\ chunks[i].part = "record" =>
                IF i < Len(chunks)
                THEN chunks[i + 1] = Chunk(chunks[i].call, "newline", Nothing)
                ELSE lock = chunks[i].call /\ calls[chunks[i].call].pc = "wrote"
          /\ chunks[i].part = "newline" =>
                i > 1 /\ chunks[i - 1].part = "record"
                      /\ chunks[i - 1].call = chunks[i].call
    /\ \A k \in DOMAIN calls :
          /\ calls[k].pc \in {"upstream", "failed", "dropped", "buffered", "locked"}
                => ChunksOf(k) = <<>>
          /\ calls[k].pc = "replied" =>
                ChunksOf(k) = IF calls[k].pairing = Nothing THEN <<>>
                              ELSE <<Chunk(k, "record", calls[k].pairing),
                                     Chunk(k, "newline", Nothing)>>

\* C14 witness: two calls on two connections capture at the same time: one
\* has written its record and holds the lock, the other waits for the lock
CaptureWritesWitness ==
    \E k, h \in DOMAIN calls :
        /\ calls[k].conn # calls[h].conn
        /\ calls[k].pc = "wrote" /\ lock = k
        /\ calls[h].pc = "buffered" /\ calls[h].pairing # Nothing

=============================================================================
